---------------------------- MODULE Spec2Model ----------------------------
(***************************************************************************)
(* A model of package equalfile (src/equalfile.go): the comparator Cmp,    *)
(* its paired stream comparison compareReader and the readers it drives.   *)
(***************************************************************************)
EXTENDS Integers, Sequences, FiniteSets, TLC

(***************************************************************************)
(* Bounds of the model.                                                    *)
(***************************************************************************)
MaxLen == 3        \* longest stream content
MaxMaxSize == 2    \* largest small positive Opt.MaxSize
MaxBufLen == 3     \* longest comparator buffer given to New
MaxLimit == 1      \* largest N of an io.LimitedReader
MaxFileLen == 2    \* longest file content

\* The path names CompareFile is called with.
Paths == {1, 2}

\* The byte values streams are made of.
Byte == {1, 2}

Min(a, b) == IF a < b THEN a ELSE b

SeqsUpTo(n) == UNION {[1..k -> Byte] : k \in 0..n}

(***************************************************************************)
(* int64 values.  TLC's integers are 32 bits wide, so an int64 is kept as  *)
(* three limbs <<a, b, c>> of value a*10^18 + b*10^9 + c with              *)
(* 0 <= b, c < 10^9; the order of int64 is the lexicographic order.        *)
(***************************************************************************)
I64(v) == IF v >= 0 THEN <<0, 0, v>> ELSE <<-1, 999999999, 1000000000 + v>>

I64Less(x, y) ==
    \/ x[1] < y[1]
    \/ x[1] = y[1] /\ x[2] < y[2]
    \/ x[1] = y[1] /\ x[2] = y[2] /\ x[3] < y[3]

\* const defaultMaxSize = 10000000000
defaultMaxSize == <<0, 10, 0>>

\* const defaultBufSize = 20000
defaultBufSize == 20000

\* math.MaxInt64 = 9223372036854775807
MaxInt64 == <<9, 223372036, 854775807>>

(***************************************************************************)
(* Errors.                                                                 *)
(***************************************************************************)
Nil == "nil"
EOF == "EOF"
ErrMaxReadSize == "max read size reached"
ErrNonPositiveMaxSize == "nonpositive max size"
ErrInsufficientBuffer == "insufficient buffer size"
ErrNegativeMaxSize == "negative MaxSize"
ErrNotRegular == "can't compare non-regular file"
ErrOpen == "open failed"
ErrStat == "stat failed"
ErrRead == "read failed"

NoResult == [eq |-> FALSE, err |-> "pending"]
Result(eq, err) == [eq |-> eq, err |-> err]

VARIABLES
    Opt,          \* c.Opt: [Debug, ForceFileRead, MaxSize]
    bufArg,       \* length of the buffer handed to New (0: nil or empty)
    buf,          \* len(c.buf)
    r1, r2,       \* the two readers handed to the comparison
    pc,           \* position of the comparison in progress
    useMaxSize,   \* compareReader's locals
    maxSize,
    size,
    eof1, eof2,
    n1, n2,
    buf1, buf2,   \* buf1[:n1] and buf2[:n2], the bytes of the current window
    readSize,
    result,       \* what the call returned
    prev,         \* the comparison made before this one: its buffer and result
    hashType,     \* c.hashType: nil, or the bytes written to it since its Reset
    hashMatchCompare,
    hashTable,    \* c.hashTable: path -> hashSum
    fs,           \* the file system: path -> file
    path1, path2, \* the paths of the CompareFile in progress
    open,         \* the file handles that are open
    readCount,    \* c.readCount, c.readMin, c.readMax, c.readSum: the read
    readMin,      \* statistics kept under Opt.Debug
    readMax,
    readSum

\* The comparator and what it is given.
cmpVars == <<Opt, bufArg, buf, hashMatchCompare>>

\* The hash and its cache.
hashVars == <<hashType, hashTable>>

\* The files and the call in progress.
fileVars == <<fs, path1, path2>>

\* The locals of compareReader.
locVars == <<useMaxSize, maxSize, size, eof1, eof2, n1, n2, buf1, buf2, readSize>>

\* The read statistics of the comparator.
debugVars == <<readCount, readMin, readMax, readSum>>

vars == <<cmpVars, hashVars, fileVars, open, r1, r2, pc, locVars, result, prev,
          debugVars>>

(***************************************************************************)
(* Readers.  A reader holds the content it will deliver and its position;  *)
(* lim marks an *io.LimitedReader with N bytes left; eofWithData is the    *)
(* reader's way of signalling end-of-input: with its last bytes, or on the *)
(* next, empty read; short tells whether a read may return fewer bytes     *)
(* than the buffer takes and the content has (a strings.Reader never does).*)
(* failAt is the position at which a read fails with an error that is not  *)
(* end-of-input (-1: none) and failed tells that it did; an endless reader *)
(* delivers its content over and over and never ends.                      *)
(***************************************************************************)
Reader(data, lim, N, early, short) ==
    [data |-> data, pos |-> 0, lim |-> lim, N |-> N, eofWithData |-> early,
     short |-> short, failAt |-> -1, failed |-> FALSE, endless |-> FALSE]

\* The reader r with a read error at position k.
FailingReader(r, k) == [r EXCEPT !.failAt = k]

\* The reader r, repeating its content without end.
EndlessReader(r) == [r EXCEPT !.endless = TRUE]

\* The bytes a reader has not delivered yet.
Remaining(r) == Len(r.data) - r.pos

\* The bytes a read can take before the end or the failing position.
Available(r) ==
    IF r.failAt > r.pos THEN r.failAt - r.pos ELSE Remaining(r)

\* r.Read(p) of the underlying reader with len(p) = len: the possible
\* outcomes [n, bytes, err, r].  A read returns between 1 and len bytes
\* while content is left (as many as fit, for a reader without short
\* reads), and (0, EOF) after the end.
ReadPlain(r, len) ==
    IF r.failAt = r.pos
    THEN {[n |-> 0, bytes |-> <<>>, err |-> ErrRead,
           r |-> [r EXCEPT !.failed = TRUE]]}
    ELSE IF r.endless
    THEN {[n |-> k,
           bytes |-> [i \in 1..k |-> r.data[((r.pos + i - 1) % Len(r.data)) + 1]],
           err |-> Nil,
           r |-> [r EXCEPT !.pos = (r.pos + k) % Len(r.data)]] :
              k \in 1..len}
    ELSE IF Remaining(r) = 0
    THEN {[n |-> 0, bytes |-> <<>>, err |-> EOF, r |-> r]}
    ELSE {[n |-> k,
           bytes |-> SubSeq(r.data, r.pos + 1, r.pos + k),
           err |-> IF r.eofWithData /\ k = Remaining(r) THEN EOF ELSE Nil,
           r |-> [r EXCEPT !.pos = r.pos + k]] :
              k \in (IF r.short THEN 1 ELSE Min(len, Available(r)))
                        ..Min(len, Available(r))}

\* (*io.LimitedReader).Read: EOF once N <= 0, else the underlying read of at
\* most N bytes, N reduced by the count read.
ReadLimited(r, len) ==
    IF r.N <= 0
    THEN {[n |-> 0, bytes |-> <<>>, err |-> EOF, r |-> r]}
    ELSE {[o EXCEPT !.r.N = r.N - o.n] : o \in ReadPlain(r, Min(len, r.N))}

\* r.Read(buf) of c.read: one Read of the reader.
ReaderRead(r, len) == IF r.lim THEN ReadLimited(r, len) ELSE ReadPlain(r, len)

\* A read that, under Opt.Debug, holds back an end-of-input that comes with
\* bytes.
readReturnDebug(o) ==
    IF Opt.Debug /\ o.n > 0 /\ o.err = EOF THEN [o EXCEPT !.err = Nil] ELSE o

\* return n, err of c.read: what r.Read returned.
readReturn(o) == o

\* c.read(r, buf): one Read of the reader.
read(r, len) == {readReturn(o) : o \in ReaderRead(r, len)}

\* const: the readMin that resetDebugging sets.
initReadMin == 2000000000

\* c.resetDebugging()
resetDebugging ==
    IF Opt.Debug
    THEN /\ readCount' = 0
         /\ readMin' = initReadMin
         /\ readMax' = 0
         /\ readSum' = 0
    ELSE UNCHANGED debugVars

\* The statistics of c.read after a read of n bytes.
readStats(n) ==
    IF Opt.Debug
    THEN /\ readCount' = readCount + 1
         /\ readSum' = readSum + n
         /\ readMin' = IF n < readMin THEN n ELSE readMin
         /\ readMax' = IF n > readMax THEN n ELSE readMax
    ELSE UNCHANGED debugVars

\* New / NewMultiple: a nil or empty buffer is replaced by a default one.
NewBuf(b) == IF b = 0 THEN defaultBufSize ELSE b

Options == [Debug : {FALSE}, ForceFileRead : {FALSE},
            MaxSize : {I64(v) : v \in -1..MaxMaxSize} \cup {MaxInt64}]

\* Readers of any kind: plain or limited, with either way of signalling
\* end-of-input, with reads of any size.
Readers ==
    {Reader(d, l >= 0, IF l >= 0 THEN l ELSE 0, e, TRUE) :
        d \in SeqsUpTo(MaxLen), l \in {-1} \cup 0..MaxLimit, e \in BOOLEAN}

\* strings.NewReader(s): every read fills the buffer, end-of-input comes on
\* the next read.
StringReaders == {Reader(d, FALSE, 0, FALSE, FALSE) : d \in SeqsUpTo(MaxLen)}

NoPrev == [buf |-> 0, result |-> NoResult]

\* A path that names nothing: os.Open fails.
NoFile == [kind |-> "noent", ino |-> 0, data |-> <<>>, ioerr |-> FALSE]

\* c.hashType of single comparison mode, and of a new hash.Hash.
NilHash == [nil |-> TRUE, written |-> <<>>]
NewHash == [nil |-> FALSE, written |-> <<>>]

\* No entry of c.hashTable for a path.
NoHash == [found |-> FALSE, result |-> <<>>, err |-> Nil]

Init ==
    /\ Opt \in Options
    /\ bufArg \in 0..MaxBufLen
    /\ buf = NewBuf(bufArg)
    /\ r1 \in Readers
    /\ r2 \in Readers
    /\ pc = "idle"
    /\ useMaxSize = FALSE
    /\ maxSize = I64(0)
    /\ size = 0
    /\ eof1 = FALSE /\ eof2 = FALSE
    /\ n1 = 0 /\ n2 = 0
    /\ buf1 = <<>> /\ buf2 = <<>>
    /\ readSize = 0
    /\ result = NoResult
    /\ prev = NoPrev
    /\ hashType = NilHash
    /\ hashMatchCompare = TRUE
    /\ hashTable = [p \in Paths |-> NoHash]
    /\ fs = [p \in Paths |-> NoFile]
    /\ path1 = 0 /\ path2 = 0
    /\ open = {}
    /\ readCount = 0 /\ readMin = 0 /\ readMax = 0 /\ readSum = 0

(***************************************************************************)
(* compareReader.                                                          *)
(***************************************************************************)
\* A return of the comparison in progress
\* (the deferred r1.Close() and r2.Close() of CompareFile run with it).
\* A Close that is never deferred.
deferCloseNone(h) == {}

\* defer r.Close() after a successful os.Open: what the return closes.
deferClose(h) == {h}

\* A return with the handles that are open: the deferred calls run.
ReturnWith(res, handles) ==
    /\ pc' = "done"
    /\ result' = res
    /\ open' = handles \ UNION {deferClose(h) : h \in handles}

Return(res) == ReturnWith(res, open)

\* A comparison of the windows that looks at their lengths only.
bytesEqualLengthOnly(a, b) == Len(a) = Len(b)

\* bytes.Equal(buf1[:n1], buf2[:n2])
bytesEqual(a, b) == a = b

\* A limit that is never found to be exceeded.
maxSizeReachedNever(use, rs, max) == FALSE

\* useMaxSize && readSize > maxSize
maxSizeReached(use, rs, max) == use /\ I64Less(max, I64(rs))

\* compareReader up to its loop: the choice of the limit, the split of the
\* buffer into two halves.  handles are the files open while it runs.
compareReader(x1, x2, m, handles) ==
    LET ok == x1.lim \/ x2.lim
        use == IF ok THEN FALSE ELSE I64Less(m, MaxInt64)
        max == IF ~ok /\ m = I64(0) THEN defaultMaxSize ELSE m
        sz == buf \div 2
    IN  /\ useMaxSize' = use
        /\ maxSize' = max
        /\ eof1' = FALSE /\ eof2' = FALSE
        /\ n1' = 0 /\ n2' = 0
        /\ buf1' = <<>> /\ buf2' = <<>>
        /\ readSize' = 0
        /\ IF ~ok /\ I64Less(max, I64(1))
           THEN /\ size' = size
                /\ ReturnWith(Result(FALSE, ErrNonPositiveMaxSize), handles)
           ELSE /\ size' = sz
                /\ IF sz < 1
                   THEN ReturnWith(Result(FALSE, ErrInsufficientBuffer), handles)
                   ELSE pc' = "read1" /\ result' = result /\ open' = handles

\* CompareReader(r1, r2): the comparison of two readers under c.Opt.MaxSize.
CompareReader ==
    /\ pc = "idle"
    /\ path1 = 0
    /\ resetDebugging
    /\ compareReader(r1, r2, Opt.MaxSize, {})
    /\ UNCHANGED <<cmpVars, hashVars, fileVars, r1, r2, prev>>

\* A switch on the error of a read that has no default case.
isReadErrorNever(e) == FALSE

\* switch err { case io.EOF: ... case nil: default: return false, err }
isReadError(e) == e \notin {Nil, EOF}

\* n1, err1 := c.read(r1, buf1)
Read1 ==
    /\ pc = "read1"
    /\ \E o \in read(r1, size) :
          /\ r1' = o.r
          /\ readStats(o.n)
          /\ n1' = o.n
          /\ buf1' = o.bytes
          /\ eof1' = (eof1 \/ o.err = EOF)
          /\ IF isReadError(o.err)
             THEN Return(Result(FALSE, o.err))
             ELSE pc' = "read2" /\ result' = result /\ open' = open
    /\ UNCHANGED <<cmpVars, hashVars, fileVars, r2, useMaxSize, maxSize,
                   size, eof2, n2, buf2, readSize, prev>>

\* n2, err2 := c.read(r2, buf2), then the choice of the side to re-read.
Read2 ==
    /\ pc = "read2"
    /\ \E o \in read(r2, size) :
          /\ r2' = o.r
          /\ readStats(o.n)
          /\ n2' = o.n
          /\ buf2' = o.bytes
          /\ eof2' = (eof2 \/ o.err = EOF)
          /\ IF isReadError(o.err)
             THEN Return(Result(FALSE, o.err))
             ELSE /\ pc' = IF n1 < o.n THEN "partial1"
                           ELSE IF o.n < n1 THEN "partial2" ELSE "compare"
                  /\ result' = result
                  /\ open' = open
    /\ UNCHANGED <<cmpVars, hashVars, fileVars, r1, useMaxSize, maxSize,
                   size, eof1, n1, buf1, readSize, prev>>

\* One read of readPartial(c, r1, buf1, n1, n2): into buf1[n1:n2], until n1
\* reaches n2 or the read returns an error.
ReadPartial1 ==
    /\ pc = "partial1"
    /\ \E o \in read(r1, n2 - n1) :
          /\ r1' = o.r
          /\ readStats(o.n)
          /\ n1' = n1 + o.n
          /\ buf1' = buf1 \o o.bytes
          /\ eof1' = (eof1 \/ o.err = EOF)
          /\ IF isReadError(o.err)
             THEN Return(Result(FALSE, o.err))
             ELSE /\ pc' = IF o.err = Nil /\ n1 + o.n < n2
                           THEN "partial1" ELSE "compare"
                  /\ result' = result
                  /\ open' = open
    /\ UNCHANGED <<cmpVars, hashVars, fileVars, r2, useMaxSize, maxSize,
                   size, eof2, n2, buf2, readSize, prev>>

\* One read of readPartial(c, r2, buf2, n2, n1).
ReadPartial2 ==
    /\ pc = "partial2"
    /\ \E o \in read(r2, n1 - n2) :
          /\ r2' = o.r
          /\ readStats(o.n)
          /\ n2' = n2 + o.n
          /\ buf2' = buf2 \o o.bytes
          /\ eof2' = (eof2 \/ o.err = EOF)
          /\ IF isReadError(o.err)
             THEN Return(Result(FALSE, o.err))
             ELSE /\ pc' = IF o.err = Nil /\ n2 + o.n < n1
                           THEN "partial2" ELSE "compare"
                  /\ result' = result
                  /\ open' = open
    /\ UNCHANGED <<cmpVars, hashVars, fileVars, r1, useMaxSize, maxSize,
                   size, eof1, n1, buf1, readSize, prev>>

\* readSize is kept up to this value, which is above every small limit
\* plus a window and above the length of every finite stream; beyond it
\* readSize stays (an int64 holds every count a comparison can reach).
MaxReadSize == MaxLen + MaxMaxSize + MaxBufLen

\* A loop iteration that compares the windows over the shorter of the two
\* counts only.
CompareCommonPrefix ==
    /\ pc = "compare"
    /\ LET n == Min(n1, n2)
       IN  IF ~bytesEqual(SubSeq(buf1, 1, n), SubSeq(buf2, 1, n))
           THEN Return(Result(FALSE, Nil)) /\ readSize' = readSize
           ELSE /\ readSize' = Min(readSize + n, MaxReadSize)
                /\ IF maxSizeReached(useMaxSize, readSize + n, maxSize)
                   THEN Return(Result(TRUE, ErrMaxReadSize))
                   ELSE IF ~eof1 /\ ~eof2
                   THEN pc' = "read1" /\ result' = result /\ open' = open
                   ELSE IF ~eof1 \/ ~eof2
                   THEN Return(Result(FALSE, Nil))
                   ELSE Return(Result(TRUE, Nil))
    /\ UNCHANGED <<cmpVars, hashVars, fileVars, r1, r2, useMaxSize, maxSize,
                   size, eof1, eof2, n1, n2, buf1, buf2, prev, debugVars>>

\* A loop iteration that tests the limit before it compares the windows.
CompareLimitFirst ==
    /\ pc = "compare"
    /\ IF n1 # n2
       THEN Return(Result(FALSE, Nil)) /\ readSize' = readSize
       ELSE /\ readSize' = Min(readSize + n1, MaxReadSize)
            /\ IF maxSizeReached(useMaxSize, readSize + n1, maxSize)
               THEN Return(Result(TRUE, ErrMaxReadSize))
               ELSE IF ~bytesEqual(buf1, buf2)
               THEN Return(Result(FALSE, Nil))
               ELSE IF ~eof1 /\ ~eof2
               THEN pc' = "read1" /\ result' = result /\ open' = open
               ELSE IF ~eof1 \/ ~eof2
               THEN Return(Result(FALSE, Nil))
               ELSE Return(Result(TRUE, Nil))
    /\ UNCHANGED <<cmpVars, hashVars, fileVars, r1, r2, useMaxSize, maxSize,
                   size, eof1, eof2, n1, n2, buf1, buf2, prev, debugVars>>

\* The rest of a loop iteration: the counts, the windows, the limit, and the
\* loop condition with the verdict after the loop.
Compare ==
    /\ pc = "compare"
    /\ IF n1 # n2
       THEN Return(Result(FALSE, Nil)) /\ readSize' = readSize
       ELSE IF ~bytesEqual(buf1, buf2)
       THEN Return(Result(FALSE, Nil)) /\ readSize' = readSize
       ELSE /\ readSize' = Min(readSize + n1, MaxReadSize)
            /\ IF maxSizeReached(useMaxSize, readSize + n1, maxSize)
               THEN Return(Result(TRUE, ErrMaxReadSize))
               ELSE IF ~eof1 /\ ~eof2
               THEN pc' = "read1" /\ result' = result /\ open' = open
               ELSE IF ~eof1 \/ ~eof2
               THEN Return(Result(FALSE, Nil))
               ELSE Return(Result(TRUE, Nil))
    /\ UNCHANGED <<cmpVars, hashVars, fileVars, r1, r2, useMaxSize, maxSize,
                   size, eof1, eof2, n1, n2, buf1, buf2, prev, debugVars>>

(***************************************************************************)
(* CompareFile and the hash cache.                                         *)
(***************************************************************************)
\* The reader of an open regular file.
FileReader(f) ==
    IF f.ioerr
    THEN FailingReader(Reader(f.data, FALSE, 0, FALSE, TRUE), 0)
    ELSE Reader(f.data, FALSE, 0, FALSE, TRUE)

\* A size that is never looked up.
SizeUnknown(f) == 0

\* info.Size()
Size(f) == Len(f.data)

\* The bytes of data that a copy of at most m bytes takes.
CopyN(data, m) ==
    IF I64Less(I64(Len(data)), m) THEN data ELSE SubSeq(data, 1, m[3])

\* c.hashType.Sum(nil): the digest of the bytes written since Reset (of a
\* hash without collisions: the digest tells the bytes).
Sum(h) == <<"sum", h.written>>

\* A check of the file's kind that lets every file through.
IsRegularAlways(f) == TRUE

\* info.Mode().IsRegular()
IsRegular(f) == f.kind = "file"

\* A comparison of identities that never finds the same file.
SameFileNever(f1, f2) == FALSE

\* os.SameFile(info1, info2)
SameFile(f1, f2) == f1.ino = f2.ino

\* c.multipleMode()
multipleMode == ~hashType.nil

\* A digest match that is never accepted without a comparison of the bytes.
acceptHashMatchNever == FALSE

\* A digest match that is always accepted without a comparison of the bytes.
acceptHashMatchAlways == TRUE

\* if !c.hashMatchCompare: accept the hash match without comparing bytes.
acceptHashMatch == ~hashMatchCompare

\* A cache that is not keyed by path: the entry is stored for every path.
newHashAnyPath(table, path, sum, e) ==
    [p \in Paths |-> [found |-> TRUE, result |-> sum, err |-> e]]

\* A cache that stores nothing.
newHashNotStored(table, path, sum, e) == table

\* c.newHash(path, sum, e): the entry stored for path.
newHash(table, path, sum, e) ==
    [table EXCEPT ![path] = [found |-> TRUE, result |-> sum, err |-> e]]

\* A lookup that never finds an entry.
cachedNever(table, path) == FALSE

\* h, found := c.hashTable[path]
cached(table, path) == table[path].found

\* c.getHash(path, maxSize) with the cache table and the hash h: what it
\* returns, and the cache and the hash it leaves.
getHash(path, m, table, h) ==
    IF cached(table, path)
    THEN [sum |-> table[path].result, err |-> table[path].err,
          table |-> table, hash |-> h, open |-> {}]
    ELSE IF fs[path].kind = "noent"
    THEN [sum |-> <<>>, err |-> ErrOpen, table |-> table, hash |-> h,
          open |-> {}]
    ELSE LET fed == IF fs[path].ioerr THEN <<>> ELSE CopyN(fs[path].data, m)
             h2 == [h EXCEPT !.written = fed]
             copyErr == IF fs[path].ioerr THEN ErrRead
                        ELSE IF I64Less(I64(Len(fed)), m) THEN EOF ELSE Nil
             e == IF copyErr = EOF /\ I64Less(I64(Len(fed)), m)
                  THEN Nil ELSE copyErr
         IN  [sum |-> Sum(h2), err |-> e,
              table |-> newHash(table, path, Sum(h2), e), hash |-> h2,
              open |-> {<<"f", path>>} \ deferClose(<<"f", path>>)]

\* A return of CompareFile before compareReader is called, with the cache
\* and the hash it leaves and the handles the call opened.
FileReturn(res, table, h, handles) ==
    /\ ReturnWith(res, open \cup handles)
    /\ hashTable' = table
    /\ hashType' = h
    /\ UNCHANGED <<r1, r2, locVars, debugVars>>

\* A limit taken from the size of the file as it is, zero included.
fileMaxSizeOrZero(f) ==
    IF Opt.MaxSize # I64(0) THEN Opt.MaxSize ELSE I64(Size(f))

\* The limit CompareFile hands on: Opt.MaxSize, or the size of the files,
\* or 1 for empty files.
fileMaxSize(f) ==
    IF Opt.MaxSize # I64(0) THEN Opt.MaxSize
    ELSE IF Size(f) = 0 THEN I64(1) ELSE I64(Size(f))

\* CompareFile(p1, p2) up to its call of compareReader.
CompareFile ==
    /\ pc \in {"idle", "done"}
    /\ \E p1 \in Paths, p2 \in Paths :
        LET f1 == fs[p1]
            f2 == fs[p2]
            m == fileMaxSize(f1)
            h1 == getHash(p1, m, hashTable, hashType)
            h2 == getHash(p2, m, h1.table, h1.hash)
            both == {"r1", "r2"}
            after1 == both \cup h1.open
            after2 == after1 \cup h2.open
        IN  /\ path1' = p1
            /\ path2' = p2
            /\ IF I64Less(Opt.MaxSize, I64(0))
               THEN FileReturn(Result(FALSE, ErrNegativeMaxSize),
                               hashTable, hashType, {})
               ELSE IF f1.kind = "noent"
               THEN FileReturn(Result(FALSE, ErrOpen), hashTable, hashType, {})
               ELSE IF f1.kind = "nostat"
               THEN FileReturn(Result(FALSE, ErrStat), hashTable, hashType,
                               {"r1"})
               ELSE IF f2.kind = "noent"
               THEN FileReturn(Result(FALSE, ErrOpen), hashTable, hashType,
                               {"r1"})
               ELSE IF f2.kind = "nostat"
               THEN FileReturn(Result(FALSE, ErrStat), hashTable, hashType, both)
               ELSE IF ~IsRegular(f1) \/ ~IsRegular(f2)
               THEN FileReturn(Result(FALSE, ErrNotRegular),
                               hashTable, hashType, both)
               ELSE IF ~Opt.ForceFileRead /\ SameFile(f1, f2)
               THEN FileReturn(Result(TRUE, Nil), hashTable, hashType, both)
               ELSE IF Size(f1) # Size(f2)
               THEN FileReturn(Result(FALSE, Nil), hashTable, hashType, both)
               ELSE IF multipleMode /\ h1.err # Nil
               THEN FileReturn(Result(FALSE, h1.err), h1.table, h1.hash, after1)
               ELSE IF multipleMode /\ h2.err # Nil
               THEN FileReturn(Result(FALSE, h2.err), h2.table, h2.hash, after2)
               ELSE IF multipleMode /\ h1.sum # h2.sum
               THEN FileReturn(Result(FALSE, Nil), h2.table, h2.hash, after2)
               ELSE IF multipleMode /\ acceptHashMatch
               THEN FileReturn(Result(TRUE, Nil), h2.table, h2.hash, after2)
               ELSE /\ hashTable' = IF multipleMode THEN h2.table ELSE hashTable
                    /\ hashType' = IF multipleMode THEN h2.hash ELSE hashType
                    /\ r1' = FileReader(f1)
                    /\ r2' = FileReader(f2)
                    /\ resetDebugging
                    /\ compareReader(FileReader(f1), FileReader(f2), m,
                                     open \cup (IF multipleMode THEN after2
                                                              ELSE both))
    /\ UNCHANGED <<cmpVars, fs, prev>>

\* The files a path can name: none, one that cannot be examined, a
\* directory, a regular file.
Files(p) ==
    {[kind |-> "noent", ino |-> p, data |-> <<>>, ioerr |-> FALSE]}
    \cup {[kind |-> k, ino |-> i, data |-> <<>>, ioerr |-> FALSE] :
             k \in {"nostat", "dir"}, i \in 1..p}
    \cup {[kind |-> "file", ino |-> i, data |-> d, ioerr |-> FALSE] :
             i \in 1..p, d \in SeqsUpTo(MaxFileLen)}

\* The file systems: paths of one inode name one file.
FileSystems ==
    {f \in [Paths -> UNION {Files(p) : p \in Paths}] :
        \A p \in Paths : f[p] \in Files(p) /\ f[f[p].ino] = f[p]}

\* A comparer made by New or NewMultiple, with files to compare.
InitFile ==
    /\ Opt \in [Debug : {FALSE}, ForceFileRead : BOOLEAN,
                 MaxSize : {I64(v) : v \in -1..MaxMaxSize} \cup {MaxInt64}]
    /\ bufArg \in 0..MaxBufLen
    /\ buf = NewBuf(bufArg)
    /\ hashType \in {NilHash, NewHash}
    /\ hashMatchCompare \in (IF hashType.nil THEN {TRUE} ELSE BOOLEAN)
    /\ hashTable = [p \in Paths |-> NoHash]
    /\ fs \in FileSystems
    /\ r1 = Reader(<<>>, FALSE, 0, FALSE, FALSE)
    /\ r2 = Reader(<<>>, FALSE, 0, FALSE, FALSE)
    /\ path1 = 0
    /\ path2 = 0
    /\ open = {}
    /\ readCount = 0 /\ readMin = 0 /\ readMax = 0 /\ readSum = 0
    /\ pc = "idle"
    /\ useMaxSize = FALSE
    /\ maxSize = I64(0)
    /\ size = 0
    /\ eof1 = FALSE
    /\ eof2 = FALSE
    /\ n1 = 0
    /\ n2 = 0
    /\ buf1 = <<>>
    /\ buf2 = <<>>
    /\ readSize = 0
    /\ result = NoResult
    /\ prev = NoPrev

\* The regular files of a path, those whose reads fail included.
HashFiles(p) ==
    {[kind |-> "file", ino |-> i, data |-> d, ioerr |-> e] :
        i \in 1..p, d \in SeqsUpTo(MaxFileLen), e \in BOOLEAN}

HashFileSystems ==
    {f \in [Paths -> UNION {HashFiles(p) : p \in Paths}] :
        \A p \in Paths : f[p] \in HashFiles(p) /\ f[f[p].ino] = f[p]}

\* A comparer made by NewMultiple, with regular files to compare.
InitHash ==
    /\ Opt \in [Debug : {FALSE}, ForceFileRead : BOOLEAN,
                 MaxSize : {I64(v) : v \in 0..MaxMaxSize}]
    /\ bufArg \in 0..MaxBufLen
    /\ buf = NewBuf(bufArg)
    /\ hashType = NewHash
    /\ hashMatchCompare \in BOOLEAN
    /\ hashTable = [p \in Paths |-> NoHash]
    /\ fs \in HashFileSystems
    /\ r1 = Reader(<<>>, FALSE, 0, FALSE, FALSE)
    /\ r2 = Reader(<<>>, FALSE, 0, FALSE, FALSE)
    /\ path1 = 0
    /\ path2 = 0
    /\ open = {}
    /\ readCount = 0 /\ readMin = 0 /\ readMax = 0 /\ readSum = 0
    /\ pc = "idle"
    /\ useMaxSize = FALSE
    /\ maxSize = I64(0)
    /\ size = 0
    /\ eof1 = FALSE
    /\ eof2 = FALSE
    /\ n1 = 0
    /\ n2 = 0
    /\ buf1 = <<>>
    /\ buf2 = <<>>
    /\ readSize = 0
    /\ result = NoResult
    /\ prev = NoPrev

NextHash ==
    \/ CompareFile
    \/ Read1
    \/ Read2
    \/ ReadPartial1
    \/ ReadPartial2
    \/ Compare

SpecHash == InitHash /\ [][NextHash]_vars

NextFile ==
    \/ CompareFile
    \/ Read1
    \/ Read2
    \/ ReadPartial1
    \/ ReadPartial2
    \/ Compare

SpecFile == InitFile /\ [][NextFile]_vars

Next ==
    \/ CompareReader
    \/ Read1
    \/ Read2
    \/ ReadPartial1
    \/ ReadPartial2
    \/ Compare

Spec == Init /\ [][Next]_vars

(***************************************************************************)
(* Readers whose reads can fail.                                           *)
(***************************************************************************)
MaxErrLen == 2     \* longest content of a reader that can fail

\* Readers with a failing position, or none: plain or limited, with either
\* way of signalling end-of-input, with reads of any size.
ErrReaders ==
    {FailingReader(Reader(d, l >= 0, IF l >= 0 THEN l ELSE 0, e, TRUE), k) :
        d \in SeqsUpTo(MaxErrLen), l \in {-1, MaxLimit}, e \in BOOLEAN,
        k \in -1..MaxErrLen}

InitErr ==
    /\ Opt \in [Debug : {FALSE}, ForceFileRead : {FALSE},
                 MaxSize : {I64(0), I64(MaxMaxSize), MaxInt64}]
    /\ bufArg \in {0, 2, MaxBufLen}
    /\ buf = NewBuf(bufArg)
    /\ r1 \in ErrReaders
    /\ r2 \in ErrReaders
    /\ r1.failAt <= Len(r1.data)
    /\ r2.failAt <= Len(r2.data)
    /\ pc = "idle"
    /\ useMaxSize = FALSE
    /\ maxSize = I64(0)
    /\ size = 0
    /\ eof1 = FALSE /\ eof2 = FALSE
    /\ n1 = 0 /\ n2 = 0
    /\ buf1 = <<>> /\ buf2 = <<>>
    /\ readSize = 0
    /\ result = NoResult
    /\ prev = NoPrev
    /\ hashType = NilHash
    /\ hashMatchCompare = TRUE
    /\ hashTable = [p \in Paths |-> NoHash]
    /\ fs = [p \in Paths |-> NoFile]
    /\ path1 = 0 /\ path2 = 0
    /\ open = {}
    /\ readCount = 0 /\ readMin = 0 /\ readMax = 0 /\ readSum = 0

NextErr ==
    \/ CompareReader
    \/ Read1
    \/ Read2
    \/ ReadPartial1
    \/ ReadPartial2
    \/ Compare

SpecErr == InitErr /\ [][NextErr]_vars

(***************************************************************************)
(* Readers that never end, and the scheduling of a call: a call that has   *)
(* a step to take takes it.  The limits are the small ones, a negative one *)
(* and math.MaxInt64.                                                      *)
(***************************************************************************)
MaxLiveLen == 2    \* longest content, or repeated content, of a reader

LiveReaders ==
    {Reader(d, l >= 0, IF l >= 0 THEN l ELSE 0, e, TRUE) :
        d \in SeqsUpTo(MaxLiveLen), l \in {-1, MaxLimit}, e \in BOOLEAN}
    \cup {EndlessReader(Reader(d, l >= 0, IF l >= 0 THEN l ELSE 0, FALSE, TRUE)) :
            d \in SeqsUpTo(MaxLiveLen) \ {<<>>}, l \in {-1, MaxLimit}}

InitLive ==
    /\ Opt \in [Debug : {FALSE}, ForceFileRead : {FALSE},
                 MaxSize : {I64(-1), I64(MaxMaxSize), MaxInt64}]
    /\ bufArg \in {1, 2, MaxBufLen}
    /\ buf = NewBuf(bufArg)
    /\ r1 \in LiveReaders
    /\ r2 \in LiveReaders
    /\ pc = "idle"
    /\ useMaxSize = FALSE
    /\ maxSize = I64(0)
    /\ size = 0
    /\ eof1 = FALSE /\ eof2 = FALSE
    /\ n1 = 0 /\ n2 = 0
    /\ buf1 = <<>> /\ buf2 = <<>>
    /\ readSize = 0
    /\ result = NoResult
    /\ prev = NoPrev
    /\ hashType = NilHash
    /\ hashMatchCompare = TRUE
    /\ hashTable = [p \in Paths |-> NoHash]
    /\ fs = [p \in Paths |-> NoFile]
    /\ path1 = 0 /\ path2 = 0
    /\ open = {}
    /\ readCount = 0 /\ readMin = 0 /\ readMax = 0 /\ readSum = 0

NextLive ==
    \/ CompareReader
    \/ Read1
    \/ Read2
    \/ ReadPartial1
    \/ ReadPartial2
    \/ Compare

SpecLive == InitLive /\ [][NextLive]_vars /\ WF_vars(NextLive)

(***************************************************************************)
(* The same two strings compared twice, by two comparators that differ in  *)
(* their buffer only (TestMaxSizeReaders: a new Cmp and new readers for    *)
(* every row of the table).                                                *)
(***************************************************************************)
InitBuffers ==
    /\ Opt \in Options
    /\ bufArg \in 0..(2 * MaxLen)
    /\ buf = NewBuf(bufArg)
    /\ r1 \in StringReaders
    /\ r2 \in StringReaders
    /\ pc = "idle"
    /\ useMaxSize = FALSE
    /\ maxSize = I64(0)
    /\ size = 0
    /\ eof1 = FALSE /\ eof2 = FALSE
    /\ n1 = 0 /\ n2 = 0
    /\ buf1 = <<>> /\ buf2 = <<>>
    /\ readSize = 0
    /\ result = NoResult
    /\ prev = NoPrev
    /\ hashType = NilHash
    /\ hashMatchCompare = TRUE
    /\ hashTable = [p \in Paths |-> NoHash]
    /\ fs = [p \in Paths |-> NoFile]
    /\ path1 = 0 /\ path2 = 0
    /\ open = {}
    /\ readCount = 0 /\ readMin = 0 /\ readMax = 0 /\ readSum = 0

\* c := New(make([]byte, bufSize), Options{MaxSize: maxSize}) with
\* strings.NewReader(s1), strings.NewReader(s2) once more.
NewCmp ==
    /\ pc = "done"
    /\ prev = NoPrev
    /\ prev' = [buf |-> buf, result |-> result]
    /\ \E b \in 0..(2 * MaxLen) : bufArg' = b /\ buf' = NewBuf(b)
    /\ r1' = [r1 EXCEPT !.pos = 0]
    /\ r2' = [r2 EXCEPT !.pos = 0]
    /\ pc' = "idle"
    /\ result' = NoResult
    /\ UNCHANGED <<Opt, hashMatchCompare, hashVars, fileVars, open, locVars,
                   debugVars>>

NextBuffers ==
    \/ NewCmp
    \/ CompareReader
    \/ Read1
    \/ Read2
    \/ ReadPartial1
    \/ ReadPartial2
    \/ Compare

SpecBuffers == InitBuffers /\ [][NextBuffers]_vars

(***************************************************************************)
(* What the claims speak of.                                              *)
(***************************************************************************)
\* The bytes a reader delivers up to end-of-input: its content, cut at the
\* limit of a limited reader (pos + N stays the limit it was made with).
Stream(r) ==
    IF r.lim THEN SubSeq(r.data, 1, Min(Len(r.data), r.pos + r.N)) ELSE r.data

Bounded == r1.lim \/ r2.lim

\* The first k bytes of s (all of s when it is shorter).
Prefix(s, k) == SubSeq(s, 1, Min(k, Len(s)))

\* The first position (from 0) where a and b differ, the end of the shorter
\* one included; -1 when a = b.
FirstDiff(a, b) ==
    IF a = b THEN -1
    ELSE CHOOSE k \in 0..Min(Len(a), Len(b)) :
            /\ Prefix(a, k) = Prefix(b, k)
            /\ \/ k = Min(Len(a), Len(b))
               \/ a[k + 1] # b[k + 1]

\* The limit in force for unbounded readers: Opt.MaxSize, 10^10 when unset.
EffLimit == IF Opt.MaxSize = I64(0) THEN defaultMaxSize ELSE Opt.MaxSize

\* Opt.MaxSize is one of the small positive limits.
SmallLimit == Opt.MaxSize \in {I64(v) : v \in 1..MaxMaxSize}
Limit == Opt.MaxSize[3]

\* Both readers signal end-of-input on an empty read of their own.
LateEOF == ~r1.eofWithData /\ ~r2.eofWithData

Done == pc = "done"

(***************************************************************************)
(* C1. Mismatch before the limit: with a buffer of at least two bytes and  *)
(* a limit that is not negative, two streams that first differ at a        *)
(* position before the limit in force (any position, when a reader is      *)
(* limited) compare as (false, nil), whatever the sizes of the reads and   *)
(* the way end-of-input is signalled.                                      *)
(***************************************************************************)
C1_MismatchBeforeLimit ==
    LET k == FirstDiff(Stream(r1), Stream(r2))
    IN  (/\ Done
         /\ buf >= 2
         /\ k >= 0
         /\ \/ Bounded
            \/ /\ ~I64Less(Opt.MaxSize, I64(0))
               /\ I64Less(I64(k), EffLimit))
        => result = Result(FALSE, Nil)

\* Two unbounded streams of two bytes that differ in their second byte,
\* under a limit of 2 and a two-byte buffer, were compared.
C1_Witness ==
    /\ Done
    /\ ~Bounded
    /\ buf = 2
    /\ Opt.MaxSize = I64(2)
    /\ Len(r1.data) = 2 /\ Len(r2.data) = 2
    /\ FirstDiff(r1.data, r2.data) = 1
    /\ result = Result(FALSE, Nil)

(***************************************************************************)
(* C2. For unbounded readers, a buffer of at least two bytes and a small   *)
(* positive limit L, the verdict is true if and only if the two streams    *)
(* are identical within L: their first L bytes (all of them, for a stream  *)
(* no longer than L) are the same sequence.                                *)
(***************************************************************************)
C2_TrueIffIdenticalWithinLimit ==
    (Done /\ ~Bounded /\ LateEOF /\ buf >= 2 /\ SmallLimit)
        => (result.eq <=> Prefix(r1.data, Limit) = Prefix(r2.data, Limit))

(***************************************************************************)
(* C3. Buffer-size independence: two comparisons of the same two strings   *)
(* under the same MaxSize, by comparators whose buffers both have at least *)
(* two bytes, return the same verdict and the same error.                  *)
(***************************************************************************)
C3_BufferSizeIndependence ==
    (Done /\ prev # NoPrev /\ prev.buf >= 2 /\ buf >= 2)
        => result = prev.result

(***************************************************************************)
(* C4. Reflexivity under any read granularity: two unbounded streams with  *)
(* the same content, no longer than the limit, compare as (true, nil) for  *)
(* every buffer of at least two bytes and whatever the reads return.       *)
(***************************************************************************)
C4_Reflexivity ==
    (/\ Done
     /\ ~Bounded
     /\ buf >= 2
     /\ r1.data = r2.data
     /\ ~I64Less(Opt.MaxSize, I64(0))
     /\ ~I64Less(EffLimit, I64(Len(r1.data))))
        => result = Result(TRUE, Nil)

(***************************************************************************)
(* C5. Size-limit truncation: two unbounded streams that are equal for     *)
(* their first N bytes compare as (true, max read size reached) when the   *)
(* limit is below N, whatever follows byte N and whatever the buffer.      *)
(***************************************************************************)
C5_TruncationBelowEqualPrefix ==
    (/\ Done /\ ~Bounded /\ LateEOF /\ buf >= 2 /\ SmallLimit
     /\ \E N \in (Limit + 1)..Min(Len(r1.data), Len(r2.data)) :
            Prefix(r1.data, N) = Prefix(r2.data, N))
        => result = Result(TRUE, ErrMaxReadSize)

(***************************************************************************)
(* C6. Bounded-reader bypass: when a reader is limited the comparison      *)
(* returns neither the max-size nor the nonpositive-max-size error, and    *)
(* with a buffer of at least two bytes its verdict is true if and only if  *)
(* the two readers deliver the same bytes up to end-of-input.              *)
(***************************************************************************)
C6_BoundedReaderBypass ==
    (Done /\ Bounded)
        => /\ result.err \notin {ErrMaxReadSize, ErrNonPositiveMaxSize}
           /\ buf >= 2 => (result.eq <=> Stream(r1) = Stream(r2))

(***************************************************************************)
(* C7. Only the first MaxSize bytes are compared: two unbounded streams    *)
(* that agree on their first MaxSize bytes and are both longer than        *)
(* MaxSize compare as (true, max read size reached).                       *)
(***************************************************************************)
C7_OnlyFirstMaxSizeBytesCompared ==
    (/\ Done /\ ~Bounded /\ LateEOF /\ buf >= 2 /\ SmallLimit
     /\ Len(r1.data) > Limit /\ Len(r2.data) > Limit
     /\ Prefix(r1.data, Limit) = Prefix(r2.data, Limit))
        => result = Result(TRUE, ErrMaxReadSize)

(***************************************************************************)
(* C8. With unbounded readers a MaxSize that is zero or negative is        *)
(* rejected with the nonpositive-max-size error.                           *)
(***************************************************************************)
C8_NonPositiveMaxSizeRejected ==
    (Done /\ ~Bounded /\ buf >= 2 /\ I64Less(Opt.MaxSize, I64(1)))
        => result = Result(FALSE, ErrNonPositiveMaxSize)

(***************************************************************************)
(* C9. A comparator made with a buffer of fewer than two bytes (nil,       *)
(* empty, one byte) fails a comparison whose limit is valid with the       *)
(* insufficient-buffer error; one made with two bytes does not.            *)
(***************************************************************************)
C9_ShortBufferRejected ==
    (Done /\ (Bounded \/ I64Less(I64(0), Opt.MaxSize)))
        => (bufArg < 2 <=> result.err = ErrInsufficientBuffer)


(* C10: CompareFile returns an error, never a verdict without one, whenever
   either path cannot be opened or examined or is not a regular file; also
   when both paths name the same non-regular file and the identity shortcut
   is enabled. *)
C10_UnusableFileIsAnError ==
    (/\ Done
     /\ path1 # 0
     /\ \/ fs[path1].kind # "file"
        \/ fs[path2].kind # "file")
        => result.err # Nil

\* The same directory compared with itself, the shortcut enabled.
C10_Witness ==
    /\ Done
    /\ path1 # 0
    /\ path1 = path2
    /\ fs[path1].kind = "dir"
    /\ ~Opt.ForceFileRead
    /\ ~I64Less(Opt.MaxSize, I64(0))
    /\ result = Result(FALSE, ErrNotRegular)

(***************************************************************************)
(* What the claims about CompareFile speak of.                             *)
(***************************************************************************)
\* The call in progress, or the last one, compared two regular files under
\* a MaxSize that is not negative.
FilesCompared ==
    /\ path1 # 0
    /\ fs[path1].kind = "file"
    /\ fs[path2].kind = "file"
    /\ ~I64Less(Opt.MaxSize, I64(0))

\* A step that is a call of CompareFile on two regular files.
FileCall ==
    /\ pc \in {"idle", "done"}
    /\ path1' # 0
    /\ fs[path1'].kind = "file"
    /\ fs[path2'].kind = "file"
    /\ ~I64Less(Opt.MaxSize, I64(0))

\* The call returned at once: no byte was read, nothing was hashed.
ReturnedAtOnce ==
    /\ pc' = "done"
    /\ UNCHANGED <<hashVars, r1, r2, locVars>>

\* The file is longer than a MaxSize that is set.
LongerThanMaxSize(f) ==
    Opt.MaxSize # I64(0) /\ I64Less(Opt.MaxSize, I64(Len(f.data)))

(***************************************************************************)
(* C11. Identity shortcut: when both paths name the same regular file and  *)
(* ForceFileRead is off, CompareFile returns (true, nil) at once, without  *)
(* reading or hashing, whatever the MaxSize that is not negative.  When    *)
(* ForceFileRead is on and the bytes are compared (simple mode, or digests *)
(* confirmed) with a buffer that is not one byte long, the result is       *)
(* (true, max read size reached) when the file is longer than MaxSize and  *)
(* (true, nil) otherwise.                                                  *)
(***************************************************************************)
C11_IdentityShortcut ==
    /\ [][(FileCall /\ fs[path1'].ino = fs[path2'].ino /\ ~Opt.ForceFileRead)
            => (ReturnedAtOnce /\ result' = Result(TRUE, Nil))]_vars
    /\ [](  (/\ Done
             /\ FilesCompared
             /\ fs[path1].ino = fs[path2].ino
             /\ Opt.ForceFileRead
             /\ hashMatchCompare
             /\ bufArg # 1)
          => result = IF LongerThanMaxSize(fs[path1])
                      THEN Result(TRUE, ErrMaxReadSize)
                      ELSE Result(TRUE, Nil))

\* A file of two bytes was compared with itself under a MaxSize of 1 with
\* the shortcut enabled.
C11_Witness ==
    /\ Done
    /\ FilesCompared
    /\ fs[path1].ino = fs[path2].ino
    /\ ~Opt.ForceFileRead
    /\ Opt.MaxSize = I64(1)
    /\ Len(fs[path1].data) = 2
    /\ result = Result(TRUE, Nil)

(***************************************************************************)
(* C12. When two regular files have different sizes CompareFile returns    *)
(* (false, nil) at once, in simple and in hash-assisted mode: no byte is   *)
(* read from either file, no digest is computed and the hash cache is left *)
(* as it was.                                                              *)
(***************************************************************************)
C12_SizeMismatchReturnsAtOnce ==
    [][(FileCall /\ Len(fs[path1'].data) # Len(fs[path2'].data))
         => (ReturnedAtOnce /\ result' = Result(FALSE, Nil))]_vars

\* Two files of different sizes were compared in hash-assisted mode and the
\* cache is still empty.
C12_Witness ==
    /\ Done
    /\ FilesCompared
    /\ Len(fs[path1].data) # Len(fs[path2].data)
    /\ multipleMode
    /\ hashTable = [p \in Paths |-> NoHash]
    /\ result = Result(FALSE, Nil)

\* The two files of the call were compared by content: they are regular and
\* the identity shortcut was not taken.
ContentCompared ==
    /\ FilesCompared
    /\ (Opt.ForceFileRead \/ fs[path1].ino # fs[path2].ino)

(***************************************************************************)
(* C13. In hash-assisted mode two regular files of the same size whose     *)
(* content differs within the limit of the call compare as (false, nil),   *)
(* whatever was compared before with the same comparator and whether       *)
(* digest matches are confirmed or not.                                    *)
(***************************************************************************)
C13_DifferentFilesDifferentDigests ==
    (/\ Done
     /\ ContentCompared
     /\ multipleMode
     /\ Len(fs[path1].data) = Len(fs[path2].data)
     /\ CopyN(fs[path1].data, fileMaxSize(fs[path1]))
           # CopyN(fs[path2].data, fileMaxSize(fs[path1])))
        => result = Result(FALSE, Nil)

\* Two files of one byte each, with different bytes, were compared with
\* digest matches trusted, both digests in the cache.
C13_Witness ==
    /\ Done
    /\ ContentCompared
    /\ multipleMode
    /\ ~hashMatchCompare
    /\ Len(fs[path1].data) = 1
    /\ Len(fs[path2].data) = 1
    /\ fs[path1].data # fs[path2].data
    /\ hashTable[path1].found
    /\ hashTable[path2].found
    /\ hashTable[path1].result # hashTable[path2].result
    /\ result = Result(FALSE, Nil)

\* A call of CompareFile in hash-assisted mode that finds the digests of two
\* files of the same size to match.
DigestsMatchCall ==
    /\ FileCall
    /\ (Opt.ForceFileRead \/ fs[path1'].ino # fs[path2'].ino)
    /\ multipleMode
    /\ Len(fs[path1'].data) = Len(fs[path2'].data)
    /\ hashTable'[path1'].err = Nil
    /\ hashTable'[path2'].err = Nil
    /\ hashTable'[path1'].result = hashTable'[path2'].result

\* The results a comparison of the streams a and b under the limit m can
\* have when they have one length and agree on their first m bytes.
StreamResults(a, b, m) ==
    IF a = b
    THEN {IF I64Less(m, I64(Len(a))) THEN Result(TRUE, ErrMaxReadSize)
                                     ELSE Result(TRUE, Nil)}
    ELSE {Result(TRUE, ErrMaxReadSize), Result(FALSE, Nil)}

(***************************************************************************)
(* C14. In hash-assisted mode, when the two digests match: with            *)
(* confirm-on-match off CompareFile returns (true, nil) at once, without   *)
(* comparing bytes; with confirm-on-match on it hands the two files and    *)
(* the limit of the call to the stream comparison and returns what that    *)
(* comparison returns.                                                     *)
(***************************************************************************)
C14_DigestMatchTrustedOrConfirmed ==
    /\ [][(DigestsMatchCall /\ ~hashMatchCompare)
            => /\ pc' = "done"
               /\ result' = Result(TRUE, Nil)
               /\ UNCHANGED <<r1, r2, locVars>>]_vars
    /\ [][(DigestsMatchCall /\ hashMatchCompare)
            => /\ r1' = FileReader(fs[path1'])
               /\ r2' = FileReader(fs[path2'])
               /\ maxSize' = fileMaxSize(fs[path1'])
               /\ IF bufArg = 1
                  THEN /\ pc' = "done"
                       /\ result' = Result(FALSE, ErrInsufficientBuffer)
                  ELSE /\ pc' = "read1"
                       /\ useMaxSize' = I64Less(maxSize', MaxInt64)]_vars
    /\ []((/\ Done
           /\ ContentCompared
           /\ multipleMode
           /\ hashMatchCompare
           /\ bufArg # 1
           /\ Len(fs[path1].data) = Len(fs[path2].data)
           /\ hashTable[path1].result = hashTable[path2].result)
          => result \in StreamResults(fs[path1].data, fs[path2].data,
                                      fileMaxSize(fs[path1])))

\* Two files that differ in their second byte only were compared under a
\* MaxSize of 1 with digest matches trusted.
C14_Witness ==
    /\ Done
    /\ ContentCompared
    /\ multipleMode
    /\ ~hashMatchCompare
    /\ Opt.MaxSize = I64(1)
    /\ Len(fs[path1].data) = 2
    /\ Len(fs[path2].data) = 2
    /\ fs[path1].data # fs[path2].data
    /\ hashTable[path1].result = hashTable[path2].result
    /\ result = Result(TRUE, Nil)

\* A call of CompareFile in hash-assisted mode that looks up the digests
\* of its files: the shortcut is not taken and the sizes are the same.
HashingCall ==
    /\ FileCall
    /\ (Opt.ForceFileRead \/ fs[path1'].ino # fs[path2'].ino)
    /\ multipleMode
    /\ Len(fs[path1'].data) = Len(fs[path2'].data)

(***************************************************************************)
(* C15. Hash cache entries are sticky: an entry of the cache is never      *)
(* removed or overwritten; a call that looks up digests which are all in   *)
(* the cache leaves the cache and the hash as they are; and an error       *)
(* stored for a path is what every later call returns whose lookup reaches *)
(* that path.                                                              *)
(***************************************************************************)
C15_CacheEntriesAreSticky ==
    /\ [][\A p \in Paths :
            hashTable[p].found => hashTable'[p] = hashTable[p]]_vars
    /\ [][(HashingCall /\ hashTable[path1'].found /\ hashTable[path2'].found)
            => UNCHANGED hashVars]_vars
    /\ [][(HashingCall /\ hashTable[path1'].found
                       /\ hashTable[path1'].err # Nil)
            => /\ pc' = "done"
               /\ result' = Result(FALSE, hashTable[path1'].err)
               /\ UNCHANGED hashVars]_vars
    /\ [][(HashingCall /\ hashTable[path1'].found
                       /\ hashTable[path1'].err = Nil
                       /\ hashTable[path2'].found
                       /\ hashTable[path2'].err # Nil)
            => /\ pc' = "done"
               /\ result' = Result(FALSE, hashTable[path2'].err)]_vars

\* The second file of a call failed to read when it was hashed for an
\* earlier call; both digests were in the cache and the call returned the
\* stored error.
C15_Witness ==
    /\ Done
    /\ ContentCompared
    /\ multipleMode
    /\ Len(fs[path1].data) = 1
    /\ Len(fs[path2].data) = 1
    /\ ~fs[path1].ioerr
    /\ fs[path2].ioerr
    /\ hashTable[path1].found
    /\ hashTable[path1].err = Nil
    /\ hashTable[path2].found
    /\ hashTable[path2].err = ErrRead
    /\ hashType.written = fs[path1].data
    /\ result = Result(FALSE, ErrRead)

(***************************************************************************)
(* C16. If a read on either stream, in the main loop or in a               *)
(* reconciliation read, returns an error other than end-of-input,          *)
(* CompareReader returns (false, that error) at once: no further read is   *)
(* issued on either stream, the read is not retried and the error is not   *)
(* turned into a verdict without error.                                    *)
(***************************************************************************)
C16_ReadErrorReturnedAtOnce ==
    /\ []((r1.failed \/ r2.failed)
            => (Done /\ result = Result(FALSE, ErrRead)))
    /\ [][(r1.failed \/ r2.failed) => UNCHANGED <<r1, r2, result>>]_vars

\* The first reader failed in a reconciliation read, after both readers
\* had delivered bytes.
C16_Witness ==
    /\ Done
    /\ r1.failed
    /\ r1.pos = 1
    /\ r2.pos = 2
    /\ n1 = 1
    /\ n2 = 2
    /\ result = Result(FALSE, ErrRead)

\* A reader that is not limited and never ends.
Endless(r) == r.endless /\ ~r.lim

\* Two endless readers under a limit that no count of bytes exceeds.
EndlessWithoutLimit ==
    Endless(r1) /\ Endless(r2) /\ Opt.MaxSize = MaxInt64

(***************************************************************************)
(* C17, as stated. CompareReader always terminates: the call eventually    *)
(* returns, for finite streams and for endless ones.                       *)
(***************************************************************************)
C17_AlwaysTerminates == <>Done

(***************************************************************************)
(* C17, amended. CompareReader terminates for every pair of streams one    *)
(* of which ends, and for two endless streams when neither reader is       *)
(* bounded and MaxSize is below math.MaxInt64; a comparison of two endless *)
(* streams never returns (true, nil).                                      *)
(***************************************************************************)
C17_TerminatesUnderALimit ==
    /\ <>(Done \/ EndlessWithoutLimit)
    /\ []((Done /\ Endless(r1) /\ Endless(r2)) => result # Result(TRUE, Nil))

\* Two endless, identical streams were compared under a small limit.
C17_Witness ==
    /\ Done
    /\ Endless(r1)
    /\ Endless(r2)
    /\ r1.data = r2.data
    /\ Opt.MaxSize = I64(MaxMaxSize)
    /\ result = Result(TRUE, ErrMaxReadSize)

\* a is a strict prefix of b.
StrictPrefix(a, b) == Len(a) < Len(b) /\ a = SubSeq(b, 1, Len(a))

(***************************************************************************)
(* C18. If what one stream delivers is a strict prefix of what the other   *)
(* delivers and the shorter length is at most the limit in force (any      *)
(* length, when a reader is limited), CompareReader returns (false, nil),  *)
(* for every buffer of at least two bytes and whatever the reads return.   *)
(***************************************************************************)
C18_StrictPrefixIsUnequal ==
    LET a == Stream(r1)
        b == Stream(r2)
    IN  (/\ Done
         /\ buf >= 2
         /\ StrictPrefix(a, b) \/ StrictPrefix(b, a)
         /\ \/ Bounded
            \/ /\ ~I64Less(Opt.MaxSize, I64(0))
               /\ ~I64Less(EffLimit, I64(Min(Len(a), Len(b)))))
        => result = Result(FALSE, Nil)

\* A stream of one byte was compared with a stream of two bytes that starts
\* with it, under a limit of 1; the first reader was read again for the
\* missing byte and had none.
C18_Witness ==
    /\ Done
    /\ ~Bounded
    /\ Opt.MaxSize = I64(1)
    /\ Len(r1.data) = 1
    /\ Len(r2.data) = 2
    /\ StrictPrefix(r1.data, r2.data)
    /\ n1 = 1
    /\ n2 = 2
    /\ eof1
    /\ result = Result(FALSE, Nil)

\* The limit a call of CompareFile on the file f works under.
LimitOf(f) ==
    IF Opt.MaxSize # I64(0) THEN Opt.MaxSize
    ELSE IF f.data = <<>> THEN I64(1)
    ELSE I64(Len(f.data))

\* compareReader is running.
Comparing == pc \in {"read1", "read2", "partial1", "partial2", "compare"}

(***************************************************************************)
(* C19. The limit CompareFile passes to the byte comparison and to the     *)
(* hashing is Opt.MaxSize when that is not zero, otherwise the common size *)
(* of the two files, or 1 when that size is zero: it is at least 1, every  *)
(* digest in the cache covers the file's bytes up to it, and two empty     *)
(* regular files compare as (true, nil) under an unset MaxSize with the    *)
(* default buffer.                                                         *)
(***************************************************************************)
C19_LimitOfCompareFile ==
    /\ (path1 # 0 /\ Comparing)
         => /\ maxSize = LimitOf(fs[path1])
            /\ maxSize = LimitOf(fs[path2])
            /\ ~I64Less(maxSize, I64(1))
    /\ \A p \in Paths :
         hashTable[p].found
           => hashTable[p].result = <<"sum", CopyN(fs[p].data, LimitOf(fs[p]))>>
    /\ (/\ Done
        /\ FilesCompared
        /\ fs[path1].data = <<>>
        /\ fs[path2].data = <<>>
        /\ Opt.MaxSize = I64(0)
        /\ bufArg = 0)
         => result = Result(TRUE, Nil)

\* Two distinct empty files were compared by their bytes under an unset
\* MaxSize with the default buffer, the limit being 1.
C19_Witness ==
    /\ Done
    /\ ContentCompared
    /\ fs[path1].ino # fs[path2].ino
    /\ fs[path1].data = <<>>
    /\ fs[path2].data = <<>>
    /\ Opt.MaxSize = I64(0)
    /\ bufArg = 0
    /\ hashMatchCompare
    /\ maxSize = I64(1)
    /\ useMaxSize
    /\ eof1
    /\ eof2
    /\ result = Result(TRUE, Nil)

(***************************************************************************)
(* C20. On every exit path of CompareFile every file handle the call       *)
(* opened, those opened to compute digests included, is closed when the    *)
(* call returns; while the bytes are compared the two files, and only      *)
(* they, are open.                                                         *)
(***************************************************************************)
C20_HandlesClosedOnReturn ==
    /\ Done => open = {}
    /\ (path1 # 0 /\ Comparing) => open = {"r1", "r2"}

\* A call returned after both files were hashed and their bytes compared.
C20_Witness ==
    /\ Done
    /\ ContentCompared
    /\ multipleMode
    /\ hashMatchCompare
    /\ hashTable[path1].found
    /\ hashTable[path2].found
    /\ r1.pos = 2
    /\ r2.pos = 2
    /\ result = Result(TRUE, Nil)
    /\ open = {}

(***************************************************************************)
(* The same call made twice by one comparator, Opt.Debug switched between  *)
(* the two: on readers that deliver the same bytes in the same reads both  *)
(* times (each read fills the buffer as far as the content goes), or on    *)
(* files read through a window of one byte.                                *)
(***************************************************************************)
MaxDebugLen == 2   \* longest content of a reader compared twice

\* Readers without short reads: plain or limited, with either way of
\* signalling end-of-input.
DebugReaders ==
    {Reader(d, l >= 0, IF l >= 0 THEN l ELSE 0, e, FALSE) :
        d \in SeqsUpTo(MaxDebugLen), l \in {-1, MaxLimit}, e \in BOOLEAN}

NoFiles == [p \in Paths |-> NoFile]

EmptyReader == Reader(<<>>, FALSE, 0, FALSE, FALSE)

InitDebug ==
    /\ Opt \in [Debug : BOOLEAN, ForceFileRead : BOOLEAN,
                 MaxSize : {I64(0), I64(1), I64(MaxMaxSize)}]
    /\ \/ /\ Opt.MaxSize # I64(0)
          /\ ~Opt.ForceFileRead
          /\ bufArg \in {0, 2}
          /\ r1 \in DebugReaders
          /\ r2 \in DebugReaders
          /\ fs = NoFiles
          /\ hashType = NilHash
          /\ hashMatchCompare = TRUE
       \/ /\ Opt.MaxSize # I64(MaxMaxSize)
          /\ bufArg = 2
          /\ r1 = EmptyReader
          /\ r2 = EmptyReader
          /\ fs \in FileSystems
          /\ fs # NoFiles
          /\ hashType \in {NilHash, NewHash}
          /\ hashMatchCompare \in (IF hashType.nil THEN {TRUE} ELSE BOOLEAN)
    /\ buf = NewBuf(bufArg)
    /\ hashTable = [p \in Paths |-> NoHash]
    /\ path1 = 0 /\ path2 = 0
    /\ open = {}
    /\ readCount = 0 /\ readMin = 0 /\ readMax = 0 /\ readSum = 0
    /\ pc = "idle"
    /\ useMaxSize = FALSE
    /\ maxSize = I64(0)
    /\ size = 0
    /\ eof1 = FALSE /\ eof2 = FALSE
    /\ n1 = 0 /\ n2 = 0
    /\ buf1 = <<>> /\ buf2 = <<>>
    /\ readSize = 0
    /\ result = NoResult
    /\ prev = NoPrev

\* A new reader of the same stream.
Rewind(r) == [r EXCEPT !.pos = 0, !.N = IF r.lim THEN r.pos + r.N ELSE r.N]

\* c.Opt.Debug = !c.Opt.Debug between two calls, with new readers of the
\* same streams.
SetDebug ==
    /\ pc = "done"
    /\ prev = NoPrev
    /\ prev' = [buf |-> buf, result |-> result,
                path1 |-> path1, path2 |-> path2]
    /\ Opt' = [Opt EXCEPT !.Debug = ~Opt.Debug]
    /\ r1' = Rewind(r1)
    /\ r2' = Rewind(r2)
    /\ pc' = "idle"
    /\ result' = NoResult
    /\ UNCHANGED <<bufArg, buf, hashMatchCompare, hashVars, fileVars, open,
                   locVars, debugVars>>

NextDebug ==
    \/ SetDebug
    \/ CompareReader
    \/ CompareFile
    \/ Read1
    \/ Read2
    \/ ReadPartial1
    \/ ReadPartial2
    \/ Compare

SpecDebug == InitDebug /\ [][NextDebug]_vars

\* The call that returned is the one made before Opt.Debug was switched.
SameCallAgain ==
    /\ Done
    /\ prev # NoPrev
    /\ prev.path1 = path1
    /\ prev.path2 = path2

(***************************************************************************)
(* C21. The Debug option never affects the result: the same call on the    *)
(* same streams or files, with the same buffer and MaxSize, returns the    *)
(* same verdict and error with Debug on as with Debug off, whatever the    *)
(* read statistics hold.                                                   *)
(***************************************************************************)
C21_DebugNeverAffectsResult ==
    SameCallAgain => result = prev.result

\* Two streams of two bytes were compared with Debug off and again with
\* Debug on, the second time with statistics of three reads a side.
C21_Witness ==
    /\ SameCallAgain
    /\ path1 = 0
    /\ Opt.Debug
    /\ bufArg = 2
    /\ Len(r1.data) = 2
    /\ r1.data = r2.data
    /\ ~Bounded
    /\ Opt.MaxSize = I64(MaxMaxSize)
    /\ readCount = 6
    /\ readMin = 0
    /\ readMax = 1
    /\ readSum = 4
    /\ result = Result(TRUE, Nil)

\* The last window held a mismatch: the counts agree and the bytes do not.
WindowMismatch == n1 = n2 /\ buf1 # buf2

\* The bytes of each stream that were compared: those of the windows found
\* equal, and those of the window a mismatch was found in.
Compared == IF Done /\ WindowMismatch THEN readSize + n1 ELSE readSize

\* The max-size-reached signal follows a match of every byte read so far
\* from both streams.
SignalAfterMatch ==
    (Done /\ result = Result(TRUE, ErrMaxReadSize))
        => /\ useMaxSize
           /\ I64Less(maxSize, I64(readSize))
           /\ r1.pos = readSize
           /\ r2.pos = readSize
           /\ buf1 = buf2
           /\ Prefix(r1.data, readSize) = Prefix(r2.data, readSize)

\* A mismatch in a window that reaches beyond the limit is a difference.
MismatchAcrossLimit ==
    (Done /\ useMaxSize /\ WindowMismatch
          /\ I64Less(maxSize, I64(readSize + n1)))
        => result = Result(FALSE, Nil)

(***************************************************************************)
(* C22, as stated. In each loop iteration the window comparison happens    *)
(* before the limit check: max read size reached is returned only after    *)
(* every byte read so far from both streams matched, a mismatch inside the *)
(* window that crosses MaxSize is reported as (false, nil), and the bytes  *)
(* beyond MaxSize that are compared are fewer than one half of the buffer. *)
(***************************************************************************)
C22_WindowComparedBeforeLimit ==
    /\ SignalAfterMatch
    /\ MismatchAcrossLimit
    /\ (useMaxSize /\ SmallLimit) => Compared - Limit < size

(***************************************************************************)
(* C22, amended. As stated, but the bytes beyond MaxSize that are compared *)
(* are at most one half of the buffer: a window that starts at MaxSize is  *)
(* compared whole.                                                         *)
(***************************************************************************)
C22_WindowComparedBeforeLimitAmended ==
    /\ SignalAfterMatch
    /\ MismatchAcrossLimit
    /\ (useMaxSize /\ SmallLimit) => Compared - Limit <= size

\* Two streams that differ in their second byte only were compared under a
\* MaxSize of 1 through windows of one byte: the second window lies beyond
\* the limit and its mismatch is the result.
C22_Witness ==
    /\ Done
    /\ useMaxSize
    /\ Opt.MaxSize = I64(1)
    /\ size = 1
    /\ readSize = 1
    /\ WindowMismatch
    /\ Compared - Limit = size
    /\ result = Result(FALSE, Nil)

(***************************************************************************)
(* The digest lookup by itself: getHash on any path, one that cannot be    *)
(* opened included (the file is gone, or the process has no descriptor     *)
(* left, when getHash opens it), under any limit of at least one byte.     *)
(***************************************************************************)
\* The files a lookup can meet: none, or a regular file whose reads may fail.
LookupFiles(p) ==
    {NoFile} \cup {[kind |-> "file", ino |-> p, data |-> d, ioerr |-> e] :
                      d \in SeqsUpTo(MaxFileLen), e \in BOOLEAN}

\* The limits a lookup is given: small ones and math.MaxInt64.
LookupLimits == {I64(v) : v \in 1..(MaxMaxSize + 1)} \cup {MaxInt64}

InitGetHash ==
    /\ Opt = [Debug |-> FALSE, ForceFileRead |-> FALSE, MaxSize |-> I64(0)]
    /\ bufArg = 0
    /\ buf = NewBuf(bufArg)
    /\ hashType = NewHash
    /\ hashMatchCompare \in BOOLEAN
    /\ hashTable = [p \in Paths |-> NoHash]
    /\ fs \in [Paths -> UNION {LookupFiles(p) : p \in Paths}]
    /\ \A p \in Paths : fs[p] \in LookupFiles(p)
    /\ r1 = EmptyReader
    /\ r2 = EmptyReader
    /\ path1 = 0 /\ path2 = 0
    /\ open = {}
    /\ readCount = 0 /\ readMin = 0 /\ readMax = 0 /\ readSum = 0
    /\ pc = "idle"
    /\ useMaxSize = FALSE
    /\ maxSize = I64(0)
    /\ size = 0
    /\ eof1 = FALSE /\ eof2 = FALSE
    /\ n1 = 0 /\ n2 = 0
    /\ buf1 = <<>> /\ buf2 = <<>>
    /\ readSize = 0
    /\ result = NoResult
    /\ prev = NoPrev

\* h, err := c.getHash(path, maxSize): path1 and maxSize are its arguments,
\* result is what it returned.
GetHash ==
    /\ pc = "idle"
    /\ \E p \in Paths, m \in LookupLimits :
          LET h == getHash(p, m, hashTable, hashType)
          IN  /\ path1' = p
              /\ maxSize' = m
              /\ hashTable' = h.table
              /\ hashType' = h.hash
              /\ open' = h.open
              /\ result' = [sum |-> h.sum, err |-> h.err]
    /\ UNCHANGED <<cmpVars, fs, path2, r1, r2, pc, useMaxSize, size, eof1,
                   eof2, n1, n2, buf1, buf2, readSize, prev, debugVars>>

NextGetHash == GetHash

SpecGetHash == InitGetHash /\ [][NextGetHash]_vars

\* The entry of the cache that holds what the lookup returned.
EntryReturned ==
    [found |-> TRUE, result |-> result'.sum, err |-> result'.err]

\* The first min(maxBytes, file length) bytes of the file looked up.
BytesCovered ==
    LET d == fs[path1'].data
    IN  IF I64Less(I64(Len(d)), maxSize') THEN d ELSE Prefix(d, maxSize'[3])

\* What a lookup that misses the cache and reads the file leaves: the pair it
\* returned stored for its path, the other entries as they were, the digest
\* of the bytes covered, and no error for an end of the file before maxBytes.
MissStored ==
    /\ hashTable'[path1'] = EntryReturned
    /\ \A q \in Paths \ {path1'} : hashTable'[q] = hashTable[q]
    /\ ~fs[path1'].ioerr => result'.sum = <<"sum", BytesCovered>>
    /\ (~fs[path1'].ioerr /\ I64Less(I64(Len(fs[path1'].data)), maxSize'))
          => result'.err = Nil
    /\ fs[path1'].ioerr => result'.err = ErrRead

(***************************************************************************)
(* C23, as stated. Every digest lookup that misses the cache ends with the *)
(* cache holding an entry for that path equal to the (digest, error) pair  *)
(* the lookup returns; the digest covers the first min(maxBytes, file      *)
(* length) bytes, and reaching end-of-input before maxBytes is stored as   *)
(* no error.                                                               *)
(***************************************************************************)
C23_MissStoresEntry ==
    [][~hashTable[path1'].found => MissStored]_vars

(***************************************************************************)
(* C23, amended. As stated for every lookup that misses the cache and      *)
(* opens the file; a lookup whose open fails returns the error of the open *)
(* and leaves the cache as it was, with no entry for the path.             *)
(***************************************************************************)
C23_MissStoresEntryOnceOpened ==
    [][~hashTable[path1'].found
         => IF fs[path1'].kind = "noent"
            THEN /\ hashTable' = hashTable
                 /\ result' = [sum |-> <<>>, err |-> ErrOpen]
            ELSE MissStored]_vars

\* A file of one byte was looked up under a limit of two bytes: its entry
\* holds the digest of the byte and no error; the other path, which cannot
\* be opened, has no entry.
C23_Witness ==
    /\ path1 = 1
    /\ maxSize = I64(2)
    /\ Len(fs[1].data) = 1
    /\ ~fs[1].ioerr
    /\ fs[2] = NoFile
    /\ hashTable[1] = [found |-> TRUE, result |-> <<"sum", fs[1].data>>,
                       err |-> Nil]
    /\ hashTable[2] = NoHash
    /\ result = [sum |-> <<"sum", fs[1].data>>, err |-> Nil]
    /\ open = {}

(***************************************************************************)
(* C24. Whenever CompareFile returns (true, nil) for two distinct regular  *)
(* files, the identity shortcut not taken, the two files have the same     *)
(* length and the same content over their whole length: in simple mode and *)
(* in hash-assisted mode, digest matches confirmed or not, also when       *)
(* MaxSize is smaller than the size of the files.                          *)
(***************************************************************************)
C24_TrueNilMeansIdenticalFiles ==
    (/\ Done
     /\ ContentCompared
     /\ fs[path1].ino # fs[path2].ino
     /\ result = Result(TRUE, Nil))
        => /\ Len(fs[path1].data) = Len(fs[path2].data)
           /\ fs[path1].data = fs[path2].data

(***************************************************************************)
(* The same files compared by two comparators made with the same buffer    *)
(* and options: one by New, one by NewMultiple with a hash and             *)
(* confirm-on-match on, its cache empty.                                   *)
(***************************************************************************)
\* The regular files of a path, all of them readable.
ModeFiles(p) ==
    {[kind |-> "file", ino |-> i, data |-> d, ioerr |-> FALSE] :
        i \in 1..p, d \in SeqsUpTo(MaxFileLen)}

ModeFileSystems ==
    {f \in [Paths -> UNION {ModeFiles(p) : p \in Paths}] :
        \A p \in Paths : f[p] \in ModeFiles(p) /\ f[f[p].ino] = f[p]}

InitModes ==
    /\ Opt \in [Debug : {FALSE}, ForceFileRead : BOOLEAN,
                 MaxSize : {I64(v) : v \in -1..MaxMaxSize} \cup {MaxInt64}]
    /\ bufArg \in {0, 1, 2}
    /\ buf = NewBuf(bufArg)
    /\ hashType \in {NilHash, NewHash}
    /\ hashMatchCompare = TRUE
    /\ hashTable = [p \in Paths |-> NoHash]
    /\ fs \in ModeFileSystems
    /\ r1 = EmptyReader
    /\ r2 = EmptyReader
    /\ path1 = 0 /\ path2 = 0
    /\ open = {}
    /\ readCount = 0 /\ readMin = 0 /\ readMax = 0 /\ readSum = 0
    /\ pc = "idle"
    /\ useMaxSize = FALSE
    /\ maxSize = I64(0)
    /\ size = 0
    /\ eof1 = FALSE /\ eof2 = FALSE
    /\ n1 = 0 /\ n2 = 0
    /\ buf1 = <<>> /\ buf2 = <<>>
    /\ readSize = 0
    /\ result = NoResult
    /\ prev = NoPrev

\* New(buf, options) after NewMultiple(buf, options, h, true), or the other
\* way round: a comparator of the other mode, its cache empty.
OtherMode ==
    /\ pc = "done"
    /\ prev = NoPrev
    /\ prev' = [buf |-> buf, result |-> result,
                path1 |-> path1, path2 |-> path2]
    /\ hashType' = IF hashType.nil THEN NewHash ELSE NilHash
    /\ hashTable' = [p \in Paths |-> NoHash]
    /\ pc' = "idle"
    /\ result' = NoResult
    /\ UNCHANGED <<cmpVars, fileVars, open, r1, r2, locVars, debugVars>>

NextModes ==
    \/ OtherMode
    \/ CompareFile
    \/ Read1
    \/ Read2
    \/ ReadPartial1
    \/ ReadPartial2
    \/ Compare

SpecModes == InitModes /\ [][NextModes]_vars

\* The call that returned compared the files the comparator of the other
\* mode compared.
SameFilesOtherMode ==
    /\ Done
    /\ prev # NoPrev
    /\ prev.path1 = path1
    /\ prev.path2 = path2

\* The result of the byte comparison of the two files does not depend on
\* how many bytes each read returns: the windows are one byte long, or the
\* files do not differ, or they first differ no later than at the limit.
SameWhateverTheReads ==
    LET d1 == fs[path1].data
        d2 == fs[path2].data
    IN  \/ buf \div 2 = 1
        \/ ~I64Less(fileMaxSize(fs[path1]), I64(FirstDiff(d1, d2)))

(***************************************************************************)
(* C25, as stated. For the same two regular files, the same buffer and the *)
(* same MaxSize, a hash-assisted comparator with confirm-on-match on       *)
(* returns from CompareFile the verdict and the error a simple-mode        *)
(* comparator returns.                                                     *)
(***************************************************************************)
C25_ConfirmModeEqualsSimpleMode ==
    (SameFilesOtherMode /\ SameWhateverTheReads) => result = prev.result

(***************************************************************************)
(* C25, amended. As stated, for a buffer that is not one byte long: a      *)
(* one-byte buffer makes the simple-mode comparator return the             *)
(* insufficient-buffer error where the hash-assisted one returns           *)
(* (false, nil) for files whose digests differ.                            *)
(***************************************************************************)
C25_ConfirmModeEqualsSimpleModeGivenBuffer ==
    (SameFilesOtherMode /\ SameWhateverTheReads /\ bufArg # 1)
        => result = prev.result

\* Two distinct files of two bytes that differ in their first byte were
\* compared by a simple-mode comparator and then by a hash-assisted one,
\* which returned on the mismatch of the digests.
C25_Witness ==
    /\ SameFilesOtherMode
    /\ multipleMode
    /\ bufArg = 0
    /\ fs[path1].ino # fs[path2].ino
    /\ Len(fs[path1].data) = 2
    /\ Len(fs[path2].data) = 2
    /\ FirstDiff(fs[path1].data, fs[path2].data) = 0
    /\ hashTable[path1].found
    /\ hashTable[path2].found
    /\ hashTable[path1].result # hashTable[path2].result
    /\ r1.pos = 1
    /\ prev.result = Result(FALSE, Nil)
    /\ result = Result(FALSE, Nil)

(***************************************************************************)
(* C26. The result does not depend on how a stream signals end-of-input:   *)
(* two unbounded streams with the same content, no longer than the limit,  *)
(* one reader returning its last bytes together with end-of-input and the  *)
(* other signalling it on its next, empty read, compare as (true, nil)     *)
(* with a buffer of at least two bytes.                                    *)
(***************************************************************************)
C26_EndOfInputSignalling ==
    (/\ Done
     /\ ~Bounded
     /\ buf >= 2
     /\ r1.eofWithData # r2.eofWithData
     /\ r1.data = r2.data
     /\ ~I64Less(Opt.MaxSize, I64(0))
     /\ ~I64Less(EffLimit, I64(Len(r1.data))))
        => result = Result(TRUE, Nil)

=============================================================================
